---- MODULE Spec2Model ----
(***************************************************************************)
(* Model of the Cellhasher device-fleet scripts:                           *)
(*   Acurast-Lite-Install-Update.py  (install flow: Spec, SpecFair;        *)
(*                                    release resolution: SpecResolve)     *)
(*   setup_ssh.py                    (provisioning flow: SpecProv)         *)
(* Text values (stdout, stderr, asset names, the secret) are sequences of  *)
(* one-character strings, so that substring, suffix, case folding and      *)
(* stripping are computed as Python computes them.                         *)
(***************************************************************************)
EXTENDS Integers, Sequences, FiniteSets, TLC

VARIABLES
    devices,        \* os.environ["devices"].split(): the ordered device list
    release_data,   \* what the releases endpoint answers to this run
    pc,             \* position of main() of the install script
    apk_name,       \* name of the resolved release asset (<<>> before resolution)
    apk_url,        \* download URL of the resolved asset (<<>> before resolution)
    apkExists,      \* whether the downloaded artifact file is on disk
    submitted,      \* number of futures created by executor.submit so far
    work_queue,     \* ThreadPoolExecutor._work_queue: indices of queued work items
    num_threads,    \* len(ThreadPoolExecutor._threads)
    idle_sem,       \* ThreadPoolExecutor._idle_semaphore
    fut,            \* per future: state of the work item / install operation
    bridge,         \* per future: what the bridge call produced (or NoResult)
    outcome,        \* per future: return value of install_apk_on_device (or NoOutcome)
    installIssued,  \* per future: number of "adb install -r" commands issued
    yielded,        \* futures already yielded by as_completed
    printed,        \* result lines printed by the aggregator loop, in order
    unlinkCount,    \* number of os.unlink(apk_path) calls that removed the file
    cleanupRuns,    \* number of times the cleanup step was entered
    fatal,          \* which pre-fan-out step raised: "none", "resolve", "download"
    finalPrinted,   \* whether the final "completed" status line was printed
    TERMUX_SSH_PASSWORD, \* setup_ssh.py: the templated secret
    ppc,            \* setup_ssh.py: position of main()
    issued,         \* setup_ssh.py: bridge commands issued so far, in order
    results,        \* setup_ssh.py: what the issued commands produced, in order
    script,         \* setup_ssh.py: assignment line of the rendered script
    scriptWritten,  \* setup_ssh.py: whether the local script file was written
    log,            \* setup_ssh.py: lines printed for the operator
    ret             \* setup_ssh.py: value returned by main() (NoStatus before)

vars == <<devices, release_data, pc, apk_name, apk_url, apkExists, submitted, work_queue, num_threads,
          idle_sem, fut, bridge, outcome, installIssued, yielded, printed,
          unlinkCount, cleanupRuns, fatal, finalPrinted,
          TERMUX_SSH_PASSWORD, ppc, issued, results, script, scriptWritten,
          log, ret>>

----------------------------------------------------------------------------
(* Bounds of the model *)

MaxDevices == 2
MaxAssets == 3

----------------------------------------------------------------------------
(* Text helpers: Python's `in`, str.endswith, str.lower *)

UpperLetters == <<"A","B","C","D","E","F","G","H","I","J","K","L","M",
                  "N","O","P","Q","R","S","T","U","V","W","X","Y","Z">>
LowerLetters == <<"a","b","c","d","e","f","g","h","i","j","k","l","m",
                  "n","o","p","q","r","s","t","u","v","w","x","y","z">>

LowerChar(c) ==
    IF \E k \in DOMAIN UpperLetters : UpperLetters[k] = c
    THEN LowerLetters[CHOOSE k \in DOMAIN UpperLetters : UpperLetters[k] = c]
    ELSE c

Lower(s) == [k \in 1..Len(s) |-> LowerChar(s[k])]

\* m in s
Contains(s, m) ==
    \E k \in 0..(Len(s) - Len(m)) : SubSeq(s, k + 1, k + Len(m)) = m

\* s.endswith(m)
EndsWith(s, m) ==
    /\ Len(s) >= Len(m)
    /\ SubSeq(s, Len(s) - Len(m) + 1, Len(s)) = m

\* str.strip(): leading and trailing whitespace removed
Whitespace == {" ", "\t", "\n", "\r"}

RECURSIVE LStrip(_)
LStrip(s) == IF s # <<>> /\ Head(s) \in Whitespace THEN LStrip(Tail(s)) ELSE s

RECURSIVE RStrip(_)
RStrip(s) ==
    IF s # <<>> /\ s[Len(s)] \in Whitespace THEN RStrip(SubSeq(s, 1, Len(s) - 1)) ELSE s

Strip(s) == RStrip(LStrip(s))

----------------------------------------------------------------------------
(* Environment: device identifiers, release listings, bridge results *)

RECURSIVE SeqsUpTo(_, _)
SeqsUpTo(S, n) ==
    IF n = 0 THEN {<<>>}
    ELSE LET shorter == SeqsUpTo(S, n - 1)
         IN shorter \cup {Append(s, x) : s \in {t \in shorter : Len(t) = n - 1}, x \in S}

DeviceNames == <<"D1", "D2", "D3", "D4", "D5">>
DeviceIds == {DeviceNames[k] : k \in DOMAIN DeviceNames}

\* The values of the "devices" environment variable, split: fleets of up to
\* MaxDevices distinct identifiers and, since uniqueness is not enforced, a
\* list that names the same device twice.
DeviceLists ==
    {SubSeq(DeviceNames, 1, n) : n \in 0..MaxDevices} \cup {<<"D1", "D1">>}

ProcessorLite == <<"p","r","o","c","e","s","s","o","r","-","l","i","t","e">>
DotApk == <<".","a","p","k">>

NameLiteV2 == ProcessorLite \o <<"-","v","2">> \o DotApk
NameLiteCaps == <<"P","r","o","c","e","s","s","o","r","-","L","i","t","e">> \o DotApk
NameAppV1 == <<"a","p","p","-","v","1">> \o DotApk
NameOtherTxt == <<"o","t","h","e","r",".","t","x","t">>
NameLiteUpperExt == ProcessorLite \o <<".","A","P","K">>
NameLiteApkTxt == ProcessorLite \o DotApk \o <<".","t","x","t">>

AssetNames == {NameLiteV2, NameLiteCaps, NameAppV1, NameOtherTxt,
               NameLiteUpperExt, NameLiteApkTxt}

\* An asset object of the release listing; hasName = FALSE is an asset
\* object without a "name" key, hasUrl = FALSE one without a
\* "browser_download_url" key.
Url1 == <<"u","1">>
Url2 == <<"u","2">>
Urls == {Url1, Url2}

\* (assets whose name matches come with either URL, so that two matching
\* assets of one listing can be told apart)
Assets == [hasName : {TRUE}, name : {NameLiteV2, NameLiteCaps}, hasUrl : {TRUE}, url : Urls]
            \cup [hasName : {TRUE}, name : AssetNames, hasUrl : {TRUE}, url : {Url1}]
            \cup {[hasName |-> FALSE, name |-> <<>>, hasUrl |-> TRUE, url |-> Url1]}
            \cup {[hasName |-> TRUE, name |-> NameLiteV2, hasUrl |-> FALSE, url |-> <<>>]}

\* What urlopen + json.loads produce: an exception, or the release object
\* (hasAssets = FALSE: the "assets" key is absent).
Responses ==
    {[ok |-> FALSE, hasAssets |-> FALSE, assets |-> <<>>]}
    \cup {[ok |-> TRUE, hasAssets |-> FALSE, assets |-> <<>>]}
    \cup [ok : {TRUE}, hasAssets : {TRUE}, assets : SeqsUpTo(Assets, MaxAssets)]

Asset(name, url) == [hasName |-> TRUE, name |-> name, hasUrl |-> TRUE, url |-> url]
Release(assets) == [ok |-> TRUE, hasAssets |-> TRUE, assets |-> assets]
FetchFailed == [ok |-> FALSE, hasAssets |-> FALSE, assets |-> <<>>]

\* The answers of the endpoint used for whole runs of the install script: the
\* request fails, the release has no matching asset, or it has one.
ReleaseSamples ==
    { FetchFailed,
      Release(<<Asset(NameAppV1, Url1)>>),
      Release(<<Asset(NameLiteV2, Url1)>>),
      Release(<<Asset(NameAppV1, Url1), Asset(NameLiteCaps, Url2)>>) }

SuccessMarker == <<"S","u","c","c","e","s","s">>

\* Sample outputs of "adb install": one with the marker, one without it
\* (the test is case-sensitive).
Stdouts == { <<"O","K"," ">> \o SuccessMarker \o <<"\n">>,
             <<"s","u","c","c","e","s","s">> }
Stderrs == { <<>>, <<"e","r","r">> }
ReturnCodes == {0, 1}

\* subprocess.CompletedProcess of the install command, or the exception
\* raised by subprocess.run (raised = TRUE).
CompletedProcesses ==
    [raised : {FALSE}, returncode : ReturnCodes, stdout : Stdouts, stderr : Stderrs]
BridgeException == [raised |-> TRUE, returncode |-> 0, stdout |-> <<>>, stderr |-> <<>>]
NoResult == [raised |-> FALSE, returncode |-> -1, stdout |-> <<>>, stderr |-> <<>>]

NoOutcome == [status |-> "None", msg |-> <<>>]
ExcText == <<"e","x","c">>

----------------------------------------------------------------------------
(* get_latest_acurast_lite_apk *)

IsLiteApk(name) ==
    /\ Contains(Lower(name), ProcessorLite)
    /\ EndsWith(name, DotApk)

NotFound == [found |-> FALSE, name |-> <<>>, url |-> <<>>]

\* Faulty variant of FindAsset: the last matching asset is returned.
FindAsset_Last(assets, k) ==
    LET M == {j \in k..Len(assets) :
                assets[j].hasName /\ IsLiteApk(assets[j].name) /\ assets[j].hasUrl}
    IN IF M = {} THEN NotFound
       ELSE LET j == CHOOSE j \in M : \A i \in M : i <= j
            IN [found |-> TRUE, name |-> assets[j].name, url |-> assets[j].url]

\* The loop over release_data.get("assets", []) from position k: the first
\* matching asset decides; an asset without "name", or a matching one without
\* "browser_download_url", raises KeyError.
RECURSIVE FindAsset(_, _)
FindAsset(assets, k) ==
    IF k > Len(assets) THEN NotFound
    ELSE IF ~assets[k].hasName THEN NotFound
    ELSE IF IsLiteApk(assets[k].name) THEN
        (IF assets[k].hasUrl
         THEN [found |-> TRUE, name |-> assets[k].name, url |-> assets[k].url]
         ELSE NotFound)
    ELSE FindAsset(assets, k + 1)

\* Faulty variant of get_latest_acurast_lite_apk: a listing without a match
\* yields an empty reference instead of an exception.
get_latest_acurast_lite_apk_NoRaise(response) ==
    IF ~response.ok THEN NotFound
    ELSE LET r == FindAsset(IF response.hasAssets THEN response.assets ELSE <<>>, 1)
         IN [found |-> TRUE, name |-> r.name, url |-> r.url]

get_latest_acurast_lite_apk(response) ==
    IF ~response.ok THEN NotFound
    ELSE FindAsset(IF response.hasAssets THEN response.assets ELSE <<>>, 1)

----------------------------------------------------------------------------
(* install_apk_on_device: classification of the bridge result *)

\* Faulty variant of IsSuccess: both signals required instead of either.
IsSuccess_And(cp) == cp.returncode = 0 /\ Contains(cp.stdout, SuccessMarker)

IsSuccess(cp) == cp.returncode = 0 \/ Contains(cp.stdout, SuccessMarker)

\* Faulty variant of install_apk_on_device: no try/except around the bridge call, so
\* the exception leaves the operation and is stored in the future.
install_apk_on_device_NoTry(cp) ==
    IF cp.raised THEN [status |-> "Raised", msg |-> ExcText]
    ELSE IF IsSuccess(cp) THEN [status |-> "Success", msg |-> <<>>]
    ELSE [status |-> "Failed",
          msg |-> IF cp.stderr # <<>> THEN cp.stderr ELSE cp.stdout]

install_apk_on_device(cp) ==
    IF cp.raised THEN [status |-> "Error", msg |-> ExcText]
    ELSE IF IsSuccess(cp) THEN [status |-> "Success", msg |-> <<>>]
    ELSE [status |-> "Failed",
          msg |-> IF cp.stderr # <<>> THEN cp.stderr ELSE cp.stdout]

----------------------------------------------------------------------------
(* The worker pool *)

Futures == 1..Len(devices)

\* Faulty variant of max_workers: one worker fewer than devices, max(1, len(devices) - 1).
max_workers_OneLess == IF Len(devices) > 1 THEN Len(devices) - 1 ELSE 1

max_workers == IF Len(devices) >= 1 THEN Len(devices) ELSE 1

\* A future is done once its work item has set a result.
FutureDone(i) == fut[i] = "done"

Busy == Cardinality({i \in Futures : fut[i] \in {"called", "hung"}})

\* Faulty variant of AsCompletedExhausted: the loop stops after the first result.
AsCompletedExhausted_First == yielded # {}

\* as_completed has yielded every future of future_to_device.
AsCompletedExhausted == yielded = Futures

\* ThreadPoolExecutor.__exit__ -> shutdown(wait=True): every worker thread
\* has been joined, so no work item is queued or running.
ThreadsJoined == work_queue = <<>> /\ Busy = 0

----------------------------------------------------------------------------
(* main() of the install script: control flow *)

\* Faulty variant of MainFlow: cleanup follows the submissions directly, without
\* the as_completed loop and the join of the with block.
MainFlow_NoBarrier(p, ok) ==
    CASE p = "start"    -> IF ok THEN "resolve" ELSE "returned"
      [] p = "resolve"  -> IF ok THEN "download" ELSE "failed"
      [] p = "download" -> IF ok THEN "submit" ELSE "failed"
      [] p = "submit"   -> "cleanup"
      [] p = "collect"  -> "shutdown"
      [] p = "shutdown" -> "cleanup"
      [] p = "cleanup"  -> IF ok THEN "unlink" ELSE "final"
      [] p = "unlink"   -> IF ok THEN "final" ELSE "failed"
      [] p = "final"    -> "done"

\* Faulty variant of MainFlow: the exceptions of resolution and download are
\* swallowed (no re-raise) and main goes on to the next step.
MainFlow_Swallow(p, ok) ==
    CASE p = "start"    -> IF ok THEN "resolve" ELSE "returned"
      [] p = "resolve"  -> "download"
      [] p = "download" -> "submit"
      [] p = "submit"   -> "collect"
      [] p = "collect"  -> "shutdown"
      [] p = "shutdown" -> "cleanup"
      [] p = "cleanup"  -> IF ok THEN "unlink" ELSE "final"
      [] p = "unlink"   -> IF ok THEN "final" ELSE "failed"
      [] p = "final"    -> "done"

\* Faulty variant of MainFlow: os.unlink is called without the os.path.exists
\* test.
MainFlow_NoExistsCheck(p, ok) ==
    CASE p = "start"    -> IF ok THEN "resolve" ELSE "returned"
      [] p = "resolve"  -> IF ok THEN "download" ELSE "failed"
      [] p = "download" -> IF ok THEN "submit" ELSE "failed"
      [] p = "submit"   -> "collect"
      [] p = "collect"  -> "shutdown"
      [] p = "shutdown" -> "cleanup"
      [] p = "cleanup"  -> "unlink"
      [] p = "unlink"   -> IF ok THEN "final" ELSE "failed"
      [] p = "final"    -> "done"

\* Successor of position p; ok tells whether the step at p went through
\* (no exception / the tested condition held).
MainFlow(p, ok) ==
    CASE p = "start"    -> IF ok THEN "resolve" ELSE "returned"
      [] p = "resolve"  -> IF ok THEN "download" ELSE "failed"
      [] p = "download" -> IF ok THEN "submit" ELSE "failed"
      [] p = "submit"   -> "collect"
      [] p = "collect"  -> "shutdown"
      [] p = "shutdown" -> "cleanup"
      [] p = "cleanup"  -> IF ok THEN "unlink" ELSE "final"
      [] p = "unlink"   -> IF ok THEN "final" ELSE "failed"
      [] p = "final"    -> "done"

provVars == <<TERMUX_SSH_PASSWORD, ppc, issued, results, script, scriptWritten,
              log, ret>>
installVars == <<pc, apk_name, apk_url, apkExists, submitted, work_queue, num_threads,
                 idle_sem, fut, bridge, outcome, installIssued, yielded, printed,
                 unlinkCount, cleanupRuns, fatal, finalPrinted>>
poolVars == <<submitted, work_queue, num_threads, idle_sem, fut, bridge, outcome,
              installIssued>>
reportVars == <<yielded, printed>>
cleanupVars == <<unlinkCount, cleanupRuns, finalPrinted>>

----------------------------------------------------------------------------
(* setup_ssh.py: inputs, shlex.quote, run() *)

\* Value of TERMUX_SSH_PASSWORD after the template replacement: a string, or
\* a literal of another type.
Str(s) == [isStr |-> TRUE, s |-> s]
NotAString == [isStr |-> FALSE, s |-> <<>>]

Secrets == { NotAString,
             Str(<<>>),
             Str(<<" ">>),
             Str(<<" ", "\t", " ">>),
             Str(<<"p","w">>),
             Str(<<"p"," ","w">>),
             Str(<<"i","t","'","s">>),
             Str(<<"i","t","'","s"," ","a"," ","\"","t","e","s","t","\"">>),
             Str(<<"$","(","i","d",")",";","\\","'">>) }

\* main() has not returned / main() returned n.
NoStatus == <<>>
Status(n) == <<n>>

Digits == {"0","1","2","3","4","5","6","7","8","9"}
Letters == {UpperLetters[k] : k \in DOMAIN UpperLetters}
              \cup {LowerLetters[k] : k \in DOMAIN LowerLetters}

\* shlex._find_unsafe: [^\w@%+=:,./-] (ASCII)
SafeChars == Letters \cup Digits \cup {"_", "@", "%", "+", "=", ":", ",", ".", "/", "-"}

\* s.replace("'", "'\"'\"'")
RECURSIVE EscapeQuotes(_)
EscapeQuotes(s) ==
    IF s = <<>> THEN <<>>
    ELSE (IF Head(s) = "'" THEN <<"'", "\"", "'", "\"", "'">> ELSE <<Head(s)>>)
            \o EscapeQuotes(Tail(s))

\* Faulty variant of quote: embedded single quotes are not escaped.
quote_NoEscape(s) ==
    IF s = <<>> THEN <<"'", "'">>
    ELSE IF \A k \in 1..Len(s) : s[k] \in SafeChars THEN s
    ELSE <<"'">> \o s \o <<"'">>

\* shlex.quote
quote(s) ==
    IF s = <<>> THEN <<"'", "'">>
    ELSE IF \A k \in 1..Len(s) : s[k] \in SafeChars THEN s
    ELSE <<"'">> \o EscapeQuotes(s) \o <<"'">>

AssignPrefix == <<"T","E","R","M","U","X","_","S","S","H","_",
                  "P","A","S","S","W","O","R","D","=">>

\* The line of termux_bash_script that carries the secret.
RenderAssignment(secret) == AssignPrefix \o quote(secret.s)

\* The secret passes "isinstance(..., str) and ....strip()".
SecretUsable(secret) == secret.isStr /\ Strip(secret.s) # <<>>

PackagePrefix == <<"p","a","c","k","a","g","e",":">>
ComTermux == <<"c","o","m",".","t","e","r","m","u","x">>
ComTermuxApi == ComTermux \o <<".","a","p","i">>
PmLine(pkg) == PackagePrefix \o pkg \o <<"\n">>

\* Outputs of "pm list packages com.termux": the packages whose name
\* contains the filter, one per line.
PmStdouts == { <<>>,
               PmLine(ComTermux),
               PmLine(ComTermuxApi),
               PmLine(ComTermux) \o PmLine(ComTermuxApi) }

\* What subprocess.run gives for a bridge command of setup_ssh.py: a
\* CompletedProcess, or OSError when the bridge executable cannot be started.
SpawnError == [raised |-> TRUE, returncode |-> 0, stdout |-> <<>>]
ProvResults(cmd) ==
    [raised : {FALSE}, returncode : ReturnCodes,
     stdout : IF cmd = "pm_list" THEN PmStdouts ELSE {<<>>}]
    \cup {SpawnError}

\* Faulty variant of run_raises: the check argument is ignored and every
\* non-zero exit raises.
run_raises_IgnoreCheck(check, cp) == cp.raised \/ cp.returncode # 0

\* run(args, check=...): subprocess.run(..., check=check) raises
\* CalledProcessError on a non-zero exit when check is set.
run_raises(check, cp) == cp.raised \/ (check /\ cp.returncode # 0)

\* check_termux_installed: "com.termux" in (cp.stdout or "")
check_termux_installed(cp) == Contains(cp.stdout, ComTermux)

\* Faulty variant of device_id: the last listed device is taken.
device_id_Last == devices[Len(devices)]

\* device_id = DEVICES[0]
device_id == devices[1]

\* The bridge command main() runs at position p.
CmdOf(p) ==
    CASE p = "check_termux" -> "pm_list"
      [] p = "stop"         -> "force_stop"
      [] p = "push"         -> "push"
      [] p = "chmod"        -> "chmod"
      [] p = "start_app"    -> "am_start"
      [] p = "input_text"   -> "input_text"
      [] p = "keyevent"     -> "keyevent"

CommandSteps ==
    {"check_termux", "stop", "push", "chmod", "start_app", "input_text", "keyevent"}

\* Faulty variant of CheckOf: force-stop is run with the default check=True.
CheckOf_ForceStop(cmd) == cmd \notin {"pm_list", "am_start", "input_text", "keyevent"}

\* Faulty variant of CheckOf: chmod is run with check=False.
CheckOf_ChmodTolerated(cmd) ==
    cmd \notin {"pm_list", "force_stop", "chmod", "am_start", "input_text", "keyevent"}

\* The check argument main() passes to run() for the command (default True).
CheckOf(cmd) == cmd \notin {"pm_list", "force_stop", "am_start", "input_text", "keyevent"}

\* Faulty variant of ProvFlow: the script is rendered and written before the
\* package query.
ProvFlow_RenderFirst(p, ok) ==
    CASE p = "check_devices"  -> IF ok THEN "check_password" ELSE "returned"
      [] p = "check_password" -> IF ok THEN "render" ELSE "returned"
      [] p = "render"         -> "check_termux"
      [] p = "check_termux"   -> IF ok THEN "stop" ELSE "returned"
      [] p = "stop"           -> "push"
      [] p = "push"           -> "chmod"
      [] p = "chmod"          -> "start_app"
      [] p = "start_app"      -> "input_text"
      [] p = "input_text"     -> "keyevent"
      [] p = "keyevent"       -> "finish"
      [] p = "finish"         -> "returned"

\* Faulty variant of ProvFlow: chmod is run before the push.
ProvFlow_ChmodFirst(p, ok) ==
    CASE p = "check_devices"  -> IF ok THEN "check_password" ELSE "returned"
      [] p = "check_password" -> IF ok THEN "check_termux" ELSE "returned"
      [] p = "check_termux"   -> IF ok THEN "render" ELSE "returned"
      [] p = "render"         -> "stop"
      [] p = "stop"           -> "chmod"
      [] p = "chmod"          -> "push"
      [] p = "push"           -> "start_app"
      [] p = "start_app"      -> "input_text"
      [] p = "input_text"     -> "keyevent"
      [] p = "keyevent"       -> "finish"
      [] p = "finish"         -> "returned"

\* main() of setup_ssh.py: successor of position p; ok tells whether the
\* test at p held.
ProvFlow(p, ok) ==
    CASE p = "check_devices"  -> IF ok THEN "check_password" ELSE "returned"
      [] p = "check_password" -> IF ok THEN "check_termux" ELSE "returned"
      [] p = "check_termux"   -> IF ok THEN "render" ELSE "returned"
      [] p = "render"         -> "stop"
      [] p = "stop"           -> "push"
      [] p = "push"           -> "chmod"
      [] p = "chmod"          -> "start_app"
      [] p = "start_app"      -> "input_text"
      [] p = "input_text"     -> "keyevent"
      [] p = "keyevent"       -> "finish"
      [] p = "finish"         -> "returned"

\* The value main() returns when it returns at position p.
ExitStatus(p) ==
    CASE p = "check_devices"  -> 2
      [] p = "check_password" -> 2
      [] p = "check_termux"   -> 3
      [] p = "finish"         -> 0

LogLine(tag, cmd, dev, text) == [tag |-> tag, cmd |-> cmd, dev |-> dev, text |-> text]

InstallInit ==
    /\ pc = "start"
    /\ apk_name = <<>>
    /\ apk_url = <<>>
    /\ apkExists = FALSE
    /\ submitted = 0
    /\ work_queue = <<>>
    /\ num_threads = 0
    /\ idle_sem = 0
    /\ fut = [i \in Futures |-> "new"]
    /\ bridge = [i \in Futures |-> NoResult]
    /\ outcome = [i \in Futures |-> NoOutcome]
    /\ installIssued = [i \in Futures |-> 0]
    /\ yielded = {}
    /\ printed = <<>>
    /\ unlinkCount = 0
    /\ cleanupRuns = 0
    /\ fatal = "none"
    /\ finalPrinted = FALSE

\* State of setup_ssh.py before main() runs, with the secret as templated.
ProvStart(secret) ==
    /\ TERMUX_SSH_PASSWORD = secret
    /\ ppc = "check_devices"
    /\ issued = <<>>
    /\ results = <<>>
    /\ script = <<>>
    /\ scriptWritten = FALSE
    /\ log = <<>>
    /\ ret = NoStatus

\* The install script is run; setup_ssh.py is not.
Init ==
    /\ devices \in DeviceLists
    /\ release_data \in ReleaseSamples
    /\ InstallInit
    /\ ProvStart(Str(<<"p","w">>))

\* if not devices: ... return
CheckDevices ==
    /\ pc = "start"
    /\ pc' = MainFlow("start", devices # <<>>)
    /\ UNCHANGED <<devices, release_data, apk_name, apk_url, apkExists, fatal>>
    /\ UNCHANGED <<poolVars, reportVars, cleanupVars, provVars>>

\* apk_url, apk_name = get_latest_acurast_lite_apk()
Resolve ==
    /\ pc = "resolve"
    /\ LET r == get_latest_acurast_lite_apk(release_data)
       IN /\ apk_name' = r.name
          /\ apk_url' = r.url
          /\ fatal' = IF r.found THEN fatal ELSE "resolve"
          /\ pc' = MainFlow("resolve", r.found)
    /\ UNCHANGED <<devices, release_data, apkExists>>
    /\ UNCHANGED <<poolVars, reportVars, cleanupVars, provVars>>

\* apk_path = download_apk(apk_url, apk_name); a failed urlretrieve may
\* leave a partial file behind.
Download ==
    /\ pc = "download"
    /\ \E ok \in BOOLEAN, partial \in BOOLEAN :
         /\ apkExists' = (ok \/ partial)
         /\ fatal' = IF ok THEN fatal ELSE "download"
         /\ pc' = MainFlow("download", ok)
    /\ UNCHANGED <<devices, release_data, apk_name, apk_url>>
    /\ UNCHANGED <<poolVars, reportVars, cleanupVars, provVars>>

\* executor.submit(install_apk_on_device, device_id, apk_path) for the next
\* device: the work item is queued and _adjust_thread_count reuses an idle
\* worker or starts a thread while fewer than max_workers exist.
Submit ==
    /\ pc = "submit"
    /\ submitted < Len(devices)
    /\ LET i == submitted + 1
       IN /\ submitted' = i
          /\ fut' = [fut EXCEPT ![i] = "queued"]
          /\ work_queue' = Append(work_queue, i)
          /\ IF idle_sem > 0
             THEN idle_sem' = idle_sem - 1 /\ UNCHANGED num_threads
             ELSE /\ UNCHANGED idle_sem
                  /\ num_threads' = IF num_threads < max_workers
                                    THEN num_threads + 1 ELSE num_threads
    /\ UNCHANGED <<devices, release_data, pc, apk_name, apk_url, apkExists, fatal, bridge, outcome,
                   installIssued>>
    /\ UNCHANGED <<reportVars, cleanupVars, provVars>>

\* The dict comprehension is complete: main enters the as_completed loop.
SubmitDone ==
    /\ pc = "submit"
    /\ submitted = Len(devices)
    /\ pc' = MainFlow("submit", TRUE)
    /\ UNCHANGED <<devices, release_data, apk_name, apk_url, apkExists, fatal>>
    /\ UNCHANGED <<poolVars, reportVars, cleanupVars, provVars>>

\* A free worker thread takes the head of the work queue and runs
\* install_apk_on_device up to the blocking subprocess.run of "install -r".
OpStart(i) ==
    /\ i \in Futures
    /\ fut[i] = "queued"
    /\ work_queue # <<>> /\ Head(work_queue) = i
    /\ num_threads - Busy > 0
    /\ work_queue' = Tail(work_queue)
    /\ fut' = [fut EXCEPT ![i] = "called"]
    /\ installIssued' = [installIssued EXCEPT ![i] = @ + 1]
    /\ UNCHANGED <<devices, release_data, pc, apk_name, apk_url, apkExists, fatal, submitted, num_threads,
                   idle_sem, bridge, outcome>>
    /\ UNCHANGED <<reportVars, cleanupVars, provVars>>

\* Faulty variant of Finish: a result that is not a success makes the work item
\* issue the install command once more.
Finish_Retry(i, cp) ==
    IF install_apk_on_device(cp).status # "Success" /\ installIssued[i] < 2
    THEN /\ installIssued' = [installIssued EXCEPT ![i] = @ + 1]
         /\ UNCHANGED <<devices, release_data, pc, apk_name, apk_url, apkExists, fatal,
                        submitted, work_queue, num_threads, idle_sem, fut, bridge, outcome>>
         /\ UNCHANGED <<reportVars, cleanupVars, provVars>>
    ELSE /\ bridge' = [bridge EXCEPT ![i] = cp]
         /\ outcome' = [outcome EXCEPT ![i] = install_apk_on_device(cp)]
         /\ fut' = [fut EXCEPT ![i] = "done"]
         /\ idle_sem' = idle_sem + 1
         /\ UNCHANGED <<devices, release_data, pc, apk_name, apk_url, apkExists, fatal,
                        submitted, work_queue, num_threads, installIssued>>
         /\ UNCHANGED <<reportVars, cleanupVars, provVars>>

\* What the work item does once subprocess.run has produced cp: the return
\* value becomes the future's result and the worker turns idle.
Finish(i, cp) ==
    /\ bridge' = [bridge EXCEPT ![i] = cp]
    /\ outcome' = [outcome EXCEPT ![i] = install_apk_on_device(cp)]
    /\ fut' = [fut EXCEPT ![i] = "done"]
    /\ idle_sem' = idle_sem + 1
    /\ UNCHANGED <<devices, release_data, pc, apk_name, apk_url, apkExists, fatal, submitted, work_queue,
                   num_threads, installIssued>>
    /\ UNCHANGED <<reportVars, cleanupVars, provVars>>

\* subprocess.run returns a CompletedProcess.
BridgeReturn(i) ==
    /\ i \in Futures
    /\ fut[i] = "called"
    /\ \E cp \in CompletedProcesses : Finish(i, cp)

\* subprocess.run raises.
BridgeRaise(i) ==
    /\ i \in Futures
    /\ fut[i] = "called"
    /\ Finish(i, BridgeException)

\* The device never answers: subprocess.run has no timeout and blocks.
BridgeStall(i) ==
    /\ i \in Futures
    /\ fut[i] = "called"
    /\ fut' = [fut EXCEPT ![i] = "hung"]
    /\ UNCHANGED <<devices, release_data, pc, apk_name, apk_url, apkExists, fatal, submitted, work_queue,
                   num_threads, idle_sem, bridge, outcome, installIssued>>
    /\ UNCHANGED <<reportVars, cleanupVars, provVars>>

\* The line the aggregator prints for future i: the returned outcome, or the
\* "Generated an exception" line when future.result() raises.
ResultLine(i) ==
    [dev |-> devices[i],
     status |-> IF outcome[i].status = "Raised" THEN "Exception" ELSE outcome[i].status,
     msg |-> outcome[i].msg]

\* One iteration of "for future in as_completed(future_to_device)".
Collect ==
    /\ pc = "collect"
    /\ \E i \in Futures \ yielded :
         /\ FutureDone(i)
         /\ yielded' = yielded \cup {i}
         /\ printed' = Append(printed, ResultLine(i))
    /\ UNCHANGED <<devices, release_data, pc, apk_name, apk_url, apkExists, fatal>>
    /\ UNCHANGED <<poolVars, cleanupVars, provVars>>

\* as_completed is exhausted: the loop ends.
CollectDone ==
    /\ pc = "collect"
    /\ AsCompletedExhausted
    /\ pc' = MainFlow("collect", TRUE)
    /\ UNCHANGED <<devices, release_data, apk_name, apk_url, apkExists, fatal>>
    /\ UNCHANGED <<poolVars, reportVars, cleanupVars, provVars>>

\* Leaving the with block: executor.shutdown(wait=True).
Shutdown ==
    /\ pc = "shutdown"
    /\ ThreadsJoined
    /\ pc' = MainFlow("shutdown", TRUE)
    /\ UNCHANGED <<devices, release_data, apk_name, apk_url, apkExists, fatal>>
    /\ UNCHANGED <<poolVars, reportVars, cleanupVars, provVars>>

\* Step 4: if os.path.exists(apk_path)
CleanupCheck ==
    /\ pc = "cleanup"
    /\ cleanupRuns' = cleanupRuns + 1
    /\ pc' = MainFlow("cleanup", apkExists)
    /\ UNCHANGED <<devices, release_data, apk_name, apk_url, apkExists, fatal, unlinkCount, finalPrinted>>
    /\ UNCHANGED <<poolVars, reportVars, provVars>>

\* os.unlink(apk_path): raises FileNotFoundError when the file is gone.
CleanupUnlink ==
    /\ pc = "unlink"
    /\ apkExists' = FALSE
    /\ unlinkCount' = IF apkExists THEN unlinkCount + 1 ELSE unlinkCount
    /\ pc' = MainFlow("unlink", apkExists)
    /\ UNCHANGED <<devices, release_data, apk_name, apk_url, fatal, cleanupRuns, finalPrinted>>
    /\ UNCHANGED <<poolVars, reportVars, provVars>>

\* Text of the final status line (after its tick mark).
FinalLineText ==
    <<"A","c","u","r","a","s","t"," ","L","i","t","e"," ",
      "i","n","s","t","a","l","l","a","t","i","o","n","/","u","p","d","a","t","e"," ",
      "c","o","m","p","l","e","t","e","d"," ","o","n"," ","a","l","l"," ",
      "d","e","v","i","c","e","s","!">>

\* print("[OK] Acurast Lite installation/update completed on all devices!")
PrintFinal ==
    /\ pc = "final"
    /\ finalPrinted' = TRUE
    /\ pc' = MainFlow("final", TRUE)
    /\ UNCHANGED <<devices, release_data, apk_name, apk_url, apkExists, fatal, unlinkCount, cleanupRuns>>
    /\ UNCHANGED <<poolVars, reportVars, provVars>>

\* Another process removes the artifact from the scratch directory.
ExternalRemove ==
    /\ apkExists
    /\ pc \in {"submit", "collect", "shutdown", "cleanup", "unlink"}
    /\ apkExists' = FALSE
    /\ UNCHANGED <<devices, release_data, pc, apk_name, apk_url, fatal>>
    /\ UNCHANGED <<poolVars, reportVars, cleanupVars, provVars>>

Next ==
    \/ CheckDevices
    \/ Resolve
    \/ Download
    \/ Submit
    \/ SubmitDone
    \/ \E i \in 1..MaxDevices : OpStart(i)
    \/ \E i \in 1..MaxDevices : BridgeReturn(i)
    \/ \E i \in 1..MaxDevices : BridgeRaise(i)
    \/ \E i \in 1..MaxDevices : BridgeStall(i)
    \/ Collect
    \/ CollectDone
    \/ Shutdown
    \/ CleanupCheck
    \/ CleanupUnlink
    \/ PrintFinal
    \/ ExternalRemove

Spec == Init /\ [][Next]_vars

\* Scheduling: the operating system runs every worker thread and the main
\* thread; a bridge call that does not stall returns. Stalls and external
\* removals are left to the environment.
MainStep ==
    \/ CheckDevices \/ Resolve \/ Download \/ Submit \/ SubmitDone
    \/ Collect \/ CollectDone \/ Shutdown \/ CleanupCheck \/ CleanupUnlink
    \/ PrintFinal

SpecFair ==
    /\ Init /\ [][Next]_vars
    /\ WF_vars(MainStep)
    /\ \A i \in 1..MaxDevices : WF_vars(OpStart(i))
    /\ \A i \in 1..MaxDevices : WF_vars(BridgeReturn(i) \/ BridgeRaise(i))

----------------------------------------------------------------------------
(* setup_ssh.py: main() *)

\* A test of main() at position p that fails: error line, return status.
ProvReturn(p) ==
    /\ ret' = Status(ExitStatus(p))
    /\ ppc' = ProvFlow(p, FALSE)
    /\ log' = Append(log, LogLine("error", "", "", <<>>))

\* if not DEVICES: return 2
ProvCheckDevices ==
    /\ ppc = "check_devices"
    /\ IF devices # <<>>
       THEN ppc' = ProvFlow(ppc, TRUE) /\ UNCHANGED <<ret, log>>
       ELSE ProvReturn(ppc)
    /\ UNCHANGED <<devices, release_data, installVars, TERMUX_SSH_PASSWORD, issued, results,
                   script, scriptWritten>>

\* if not isinstance(TERMUX_SSH_PASSWORD, str) or not ....strip(): return 2
ProvCheckPassword ==
    /\ ppc = "check_password"
    /\ IF SecretUsable(TERMUX_SSH_PASSWORD)
       THEN ppc' = ProvFlow(ppc, TRUE) /\ UNCHANGED <<ret, log>>
       ELSE ProvReturn(ppc)
    /\ UNCHANGED <<devices, release_data, installVars, TERMUX_SSH_PASSWORD, issued, results,
                   script, scriptWritten>>

\* run(): the "[host]" trace line is printed and subprocess.run starts the
\* bridge command of the current position against device_id.
RunIssue ==
    /\ ppc \in CommandSteps
    /\ Len(results) = Len(issued)
    /\ issued' = Append(issued, [cmd |-> CmdOf(ppc), dev |-> device_id])
    /\ log' = Append(log, LogLine("host", CmdOf(ppc), device_id, <<>>))
    /\ UNCHANGED <<devices, release_data, installVars, TERMUX_SSH_PASSWORD, ppc, results, script,
                   scriptWritten, ret>>

\* The package query returns: check_termux_installed decides.
CheckTermuxReturn ==
    /\ ppc = "check_termux"
    /\ Len(results) < Len(issued)
    /\ \E cp \in ProvResults(CmdOf(ppc)) :
         /\ results' = Append(results, cp)
         /\ IF run_raises(CheckOf(CmdOf(ppc)), cp)
            THEN ppc' = "raised" /\ UNCHANGED <<ret, log>>
            ELSE IF check_termux_installed(cp)
            THEN ppc' = ProvFlow(ppc, TRUE) /\ UNCHANGED <<ret, log>>
            ELSE ProvReturn(ppc)
    /\ UNCHANGED <<devices, release_data, installVars, TERMUX_SSH_PASSWORD, issued, script,
                   scriptWritten>>

\* pw = shlex.quote(...); the script is rendered, printed as a debug line
\* and written to the local temporary file.
Render ==
    /\ ppc = "render"
    /\ script' = RenderAssignment(TERMUX_SSH_PASSWORD)
    /\ log' = Append(log, LogLine("debug", "", "", RenderAssignment(TERMUX_SSH_PASSWORD)))
    /\ scriptWritten' = TRUE
    /\ ppc' = ProvFlow(ppc, TRUE)
    /\ UNCHANGED <<devices, release_data, installVars, TERMUX_SSH_PASSWORD, issued, results, ret>>

\* A command of the UI-trigger sequence returns: run() raises or main goes on.
RunReturn ==
    /\ ppc \in CommandSteps \ {"check_termux"}
    /\ Len(results) < Len(issued)
    /\ \E cp \in ProvResults(CmdOf(ppc)) :
         /\ results' = Append(results, cp)
         /\ ppc' = IF run_raises(CheckOf(CmdOf(ppc)), cp)
                   THEN "raised" ELSE ProvFlow(ppc, TRUE)
    /\ UNCHANGED <<devices, release_data, installVars, TERMUX_SSH_PASSWORD, issued, script,
                   scriptWritten, log, ret>>

\* print("[info] Setup triggered. ..."); return 0
ProvFinish ==
    /\ ppc = "finish"
    /\ ret' = Status(ExitStatus(ppc))
    /\ ppc' = ProvFlow(ppc, TRUE)
    /\ log' = Append(log, LogLine("info", "", "", <<>>))
    /\ UNCHANGED <<devices, release_data, installVars, TERMUX_SSH_PASSWORD, issued, results,
                   script, scriptWritten>>

\* Release resolution alone: main() up to the return of
\* get_latest_acurast_lite_apk(), over every listing of up to MaxAssets assets.
InitResolve ==
    /\ devices \in DeviceLists
    /\ release_data \in Responses
    /\ InstallInit
    /\ ProvStart(Str(<<"p","w">>))

NextResolve ==
    \/ CheckDevices
    \/ Resolve

SpecResolve == InitResolve /\ [][NextResolve]_vars

\* setup_ssh.py is run with any device list and any templated secret.
InitProv ==
    /\ devices \in DeviceLists
    /\ release_data = FetchFailed
    /\ InstallInit
    /\ \E secret \in Secrets : ProvStart(secret)

NextProv ==
    \/ ProvCheckDevices
    \/ ProvCheckPassword
    \/ RunIssue
    \/ CheckTermuxReturn
    \/ Render
    \/ RunReturn
    \/ ProvFinish

SpecProv == InitProv /\ [][NextProv]_vars

----------------------------------------------------------------------------
(* Properties of the install flow *)

\* The as_completed loop has ended and main went on.
FanOutFinished ==
    \/ pc \in {"shutdown", "cleanup", "unlink", "final", "done"}
    \/ pc = "failed" /\ fatal = "none"

SubmittedCount(d) == Cardinality({i \in Futures : devices[i] = d})
ReceivedCount(d) == Cardinality({k \in 1..Len(printed) : printed[k].dev = d})

\* C1: once the fan-out has finished, the aggregator has received exactly N
\* outcomes, as many for each device identifier as it was submitted (one for
\* each submission: none missing, none duplicated); before that it never holds
\* more outcomes for an identifier than were submitted.
C1_OneOutcomePerDevice ==
    /\ \A d \in DeviceIds : ReceivedCount(d) <= SubmittedCount(d)
    /\ FanOutFinished =>
         /\ Len(printed) = Len(devices)
         /\ \A d \in DeviceIds : ReceivedCount(d) = SubmittedCount(d)

\* Two distinct devices, reported in the reverse of submission order.
C1_Witness ==
    /\ pc = "done"
    /\ Len(devices) = 2 /\ devices[1] # devices[2]
    /\ Len(printed) = 2 /\ printed[1].dev = devices[2]

\* The status a bridge result stands for, in the words of the data model.
ExpectedStatus(cp) ==
    IF cp.raised THEN "Error"
    ELSE IF cp.returncode = 0 \/ Contains(cp.stdout, SuccessMarker) THEN "Success"
    ELSE "Failed"

\* C2: an exception of one device's bridge call gives that device an Error
\* outcome; every device's outcome and printed line is the one its own bridge
\* result stands for; the exception never aborts the batch: when the loop has
\* ended every submitted operation has run to its end, and main fails only
\* before the fan-out or in the cleanup.
C2_Isolation ==
    /\ \A i \in Futures : fut[i] = "done" =>
         /\ outcome[i].status = ExpectedStatus(bridge[i])
         /\ bridge[i].raised <=> outcome[i].status = "Error"
    /\ \A i \in yielded :
         \E k \in 1..Len(printed) :
            /\ printed[k].dev = devices[i]
            /\ printed[k].status = ExpectedStatus(bridge[i])
    /\ FanOutFinished => \A i \in Futures : fut[i] = "done" /\ i \in yielded
    /\ pc = "failed" => fatal # "none" \/ cleanupRuns = 1

\* The first device raised, the second one was installed and the third line
\* of the run is the final one.
C2_Witness ==
    /\ pc = "done"
    /\ Len(devices) = 2
    /\ bridge[1].raised /\ outcome[1].status = "Error"
    /\ ~bridge[2].raised /\ outcome[2].status = "Success"

\* Nothing is left to do for the fan-out: it never began, or every
\* operation is stalled for good or has completed and been reported.
Settled ==
    \/ pc \in {"returned", "failed"} /\ submitted = 0
    \/ /\ submitted = Len(devices)
       /\ \A i \in Futures :
            \/ fut[i] = "hung"
            \/ /\ fut[i] = "done" /\ i \in yielded
               /\ \E k \in 1..Len(printed) : printed[k].dev = devices[i]

\* C3: the pool never has fewer free workers than queued work items, so a
\* queued operation starts whatever the others do; and the run settles: every
\* operation has started and each one is either stalled for good or has its
\* outcome printed by the aggregator, also while another device's bridge call
\* never returns.
C3_NoStarvation ==
    /\ [](num_threads <= max_workers /\ num_threads - Busy >= Len(work_queue))
    /\ <>[]Settled

\* The first device's call stalled and the second device has been reported.
C3_Witness ==
    /\ Len(devices) = 2
    /\ fut[1] = "hung"
    /\ 2 \in yielded /\ Len(printed) = 1 /\ printed[1].dev = devices[2]
    /\ pc = "collect"

\* C4: for a bridge result returned without raising, the outcome is Success
\* exactly when the exit code is zero or stdout contains "Success"; otherwise
\* it is Failed with stderr, or stdout when stderr is empty, as its message.
C4_Classification ==
    \A i \in Futures : (fut[i] = "done" /\ ~bridge[i].raised) =>
        /\ outcome[i].status = "Success"
             <=> (bridge[i].returncode = 0
                    \/ Contains(bridge[i].stdout, SuccessMarker))
        /\ outcome[i].status # "Success" =>
             /\ outcome[i].status = "Failed"
             /\ bridge[i].stderr # <<>> => outcome[i].msg = bridge[i].stderr
             /\ bridge[i].stderr = <<>> => outcome[i].msg = bridge[i].stdout

\* A non-zero exit with the marker counts as Success; a non-zero exit with
\* empty stderr and a lower-case "success" is Failed with stdout as message.
C4_Witness ==
    /\ Len(devices) = 2
    /\ fut[1] = "done" /\ fut[2] = "done"
    /\ bridge[1].returncode = 1 /\ Contains(bridge[1].stdout, SuccessMarker)
    /\ outcome[1].status = "Success"
    /\ bridge[2].returncode = 1 /\ bridge[2].stderr = <<>>
    /\ bridge[2].stdout = <<"s","u","c","c","e","s","s">>
    /\ outcome[2].status = "Failed" /\ outcome[2].msg = bridge[2].stdout

\* C5: main unlinks the artifact at most once and enters the cleanup at most
\* once, and only when every device's operation has been submitted and has
\* completed; a run that gets past the cleanup has no artifact left,
\* whatever the outcomes were.
C5_BarrierBeforeCleanup ==
    /\ unlinkCount <= 1 /\ cleanupRuns <= 1
    /\ (pc \in {"cleanup", "unlink", "final", "done"} \/ cleanupRuns > 0
           \/ unlinkCount > 0)
         => /\ submitted = Len(devices)
            /\ \A i \in Futures : fut[i] = "done"
    /\ pc \in {"final", "done"} => cleanupRuns = 1 /\ ~apkExists

\* The artifact was unlinked by main after one Error and one Failed outcome.
C5_Witness ==
    /\ pc = "done" /\ unlinkCount = 1
    /\ Len(devices) = 2
    /\ outcome[1].status = "Error" /\ outcome[2].status = "Failed"

\* C6: when release resolution or the download has failed, main has stopped:
\* nothing was submitted, no worker thread exists, no install command was
\* issued, the cleanup was not entered and the final line is not printed.
C6_FatalBeforeFanOut ==
    fatal # "none" =>
        /\ pc = "failed"
        /\ submitted = 0 /\ num_threads = 0 /\ work_queue = <<>>
        /\ \A i \in Futures : fut[i] = "new" /\ installIssued[i] = 0
        /\ printed = <<>> /\ cleanupRuns = 0
        /\ ~finalPrinted

\* The download failed for a fleet of two.
C6_Witness ==
    /\ fatal = "download" /\ pc = "failed"
    /\ Len(devices) = 2

----------------------------------------------------------------------------
(* Properties of the provisioning flow *)

\* The package listing has a line for the package itself.
Reported(stdout, pkg) == Contains(stdout, PmLine(pkg))

\* The package query has returned a listing.
QueryReturned == Len(results) >= 1 /\ ~results[1].raised

\* C7: main returns 2 when the device list is empty, 2 when the secret is
\* not a string or blank, 3 when the listing does not report com.termux;
\* the checks are made in this order, the first failing one decides the
\* status and nothing of the flow follows it.
C7_PreconditionStatuses ==
    /\ (devices = <<>> /\ ppc # "check_devices")
         => ppc = "returned" /\ ret = Status(2) /\ issued = <<>>
    /\ (devices # <<>> /\ ~SecretUsable(TERMUX_SSH_PASSWORD)
          /\ ppc \notin {"check_devices", "check_password"})
         => ppc = "returned" /\ ret = Status(2) /\ issued = <<>>
    /\ (QueryReturned /\ ~Reported(results[1].stdout, ComTermux))
         => ppc = "returned" /\ ret = Status(3) /\ Len(issued) = 1
    /\ ret = Status(2) => devices = <<>> \/ ~SecretUsable(TERMUX_SSH_PASSWORD)
    /\ ret = Status(3) =>
         /\ devices # <<>> /\ SecretUsable(TERMUX_SSH_PASSWORD)
         /\ QueryReturned /\ ~Reported(results[1].stdout, ComTermux)

MutatingCmds == {"force_stop", "push", "chmod", "am_start", "input_text", "keyevent"}

\* C8: while the precondition checks are being made, and in every run that
\* returned 2 or 3, no mutating bridge command has been issued and no script
\* was rendered or written; with a secret that is not usable no bridge
\* command at all is issued, not even the package query.
C8_NoEffectBeforePreconditions ==
    /\ (ret \in {Status(2), Status(3)}
           \/ ppc \in {"check_devices", "check_password", "check_termux"})
         => /\ \A k \in 1..Len(issued) : issued[k].cmd \notin MutatingCmds
            /\ ~scriptWritten /\ script = <<>>
    /\ ~SecretUsable(TERMUX_SSH_PASSWORD) => issued = <<>> /\ ~scriptWritten

\* The package query was made and the run ended with status 3.
C8_Witness ==
    /\ ret = Status(3) /\ ppc = "returned"
    /\ Len(issued) = 1 /\ issued[1].cmd = "pm_list"

StepOrder == <<"pm_list", "force_stop", "push", "chmod", "am_start", "input_text",
               "keyevent">>

\* C9: the bridge commands issued are always an initial part of the sequence
\* package query, force-stop, push, chmod, am start, input text, input
\* keyevent (none skipped, repeated or out of place, whatever the earlier
\* ones returned), a command is issued only after the one before it has
\* returned, and a run that returns 0 has issued all of them.
C9_StepOrder ==
    /\ Len(issued) <= Len(StepOrder)
    /\ [k \in 1..Len(issued) |-> issued[k].cmd] = SubSeq(StepOrder, 1, Len(issued))
    /\ Len(results) <= Len(issued) /\ Len(issued) <= Len(results) + 1
    /\ ret = Status(0) => Len(issued) = Len(StepOrder) /\ Len(results) = Len(issued)

\* The run went through although force-stop and am start exited non-zero.
C9_Witness ==
    /\ ret = Status(0) /\ Len(issued) = 7
    /\ results[2].returncode = 1 /\ results[5].returncode = 1
    /\ results[6].returncode = 0

FatalCmds == {"push", "chmod"}

\* C10: a run is aborted only by a non-zero exit of push or chmod or by a
\* bridge command that could not be started, never by a non-zero exit of
\* force-stop, am start, input text or input keyevent; a run that passed the
\* preconditions ends, if not aborted, after all seven commands with status
\* 0, and it does not stop before its end.
C10_ToleratedSteps ==
    /\ ppc = "raised" =>
         /\ Len(results) = Len(issued) /\ Len(results) >= 1
         /\ \/ results[Len(results)].raised
            \/ /\ issued[Len(results)].cmd \in FatalCmds
               /\ results[Len(results)].returncode # 0
    /\ (ppc = "returned" /\ Len(results) >= 2) =>
         ret = Status(0) /\ Len(results) = Len(StepOrder)
    /\ (ppc \notin {"returned", "raised"}) => ENABLED NextProv

\* All four best-effort steps exited non-zero and main returned 0.
C10_Witness ==
    /\ ret = Status(0) /\ ppc = "returned" /\ Len(results) = 7
    /\ \A k \in {2, 5, 6, 7} : ~results[k].raised /\ results[k].returncode = 1
    /\ \A k \in {3, 4} : results[k].returncode = 0

\* The k-th bridge command returned with a non-zero exit code.
NonZeroExit(k) == ~results[k].raised /\ results[k].returncode # 0

\* C11: once push or chmod has exited non-zero, main has been left by the
\* exception: no later command (chmod, am start, input text, input keyevent)
\* was issued and main returned no status, in particular not 0.
C11_FatalSteps ==
    \A k \in 1..Len(results) :
        (issued[k].cmd \in {"push", "chmod"} /\ NonZeroExit(k)) =>
            /\ ppc = "raised"
            /\ Len(issued) = k
            /\ ret = NoStatus

\* chmod exited non-zero after a successful push.
C11_Witness ==
    /\ Len(results) = 4 /\ issued[4].cmd = "chmod"
    /\ NonZeroExit(4) /\ results[3].returncode = 0
    /\ ppc = "raised"

\* C12 as stated: a bridge command that exits non-zero never makes run()
\* raise; main goes on and decides from the returned result.
C12_NeverRaisesOnNonZero ==
    \A k \in 1..Len(results) : NonZeroExit(k) => ~(ppc = "raised" /\ k = Len(results))

\* C12 as amended: run() raises on a non-zero exit exactly for the commands
\* run with the default check=True (push and chmod); for the commands run
\* with check=False (package query, force-stop, am start, input text, input
\* keyevent) the non-zero result is returned to main, which goes on.
C12_RaisesOnlyWhenChecked ==
    \A k \in 1..Len(results) : NonZeroExit(k) =>
        ((ppc = "raised" /\ k = Len(results)) <=> issued[k].cmd \in {"push", "chmod"})

\* force-stop exited non-zero and was returned; push exited non-zero and raised.
C12_Witness ==
    /\ Len(results) = 3
    /\ NonZeroExit(1) /\ NonZeroExit(2) /\ NonZeroExit(3)
    /\ issued[3].cmd = "push" /\ ppc = "raised"

\* C19: every bridge command of the provisioning flow, from the package query
\* to the key event, and every "[host]" trace line names the first device of
\* the list; no other listed device is ever targeted.
C19_FirstDeviceOnly ==
    /\ \A k \in 1..Len(issued) :
         /\ issued[k].dev = devices[1]
         /\ \A j \in 2..Len(devices) :
              devices[j] # devices[1] => issued[k].dev # devices[j]
    /\ \A k \in 1..Len(log) : log[k].tag = "host" => log[k].dev = devices[1]

\* All seven commands were issued for a list of two different devices.
C19_Witness ==
    /\ Len(devices) = 2 /\ devices[1] # devices[2]
    /\ Len(issued) = 7 /\ ret = Status(0)

\* C18: in a run with a usable secret no line printed for the operator
\* contains the secret.
C18_SecretNotLogged ==
    SecretUsable(TERMUX_SSH_PASSWORD) =>
        \A k \in 1..Len(log) : ~Contains(log[k].text, TERMUX_SSH_PASSWORD.s)

\* ---------------------------------------------------------------------
\* POSIX shell reading of one word (XCU 2.2 Quoting, 2.3 Token Recognition):
\* what the shell assigns when it executes NAME=word.  The reading fails
\* when the word holds an unquoted blank, operator or expansion character,
\* or an unterminated quote: then the line is no longer one assignment of a
\* literal value.  (Command substitution is represented by its "$(" form.)
ShellSpecial == Whitespace \cup {";", "&", "|", "<", ">", "(", ")", "$",
                                 "*", "?", "[", "]", "#", "~", "!", "{", "}"}
DoubleQuoteEscapable == {"$", "\"", "\\"}
ShellFail == [ok |-> FALSE, value |-> <<>>]

RECURSIVE ShellWord(_, _, _)
ShellWord(s, mode, acc) ==
    IF s = <<>> THEN [ok |-> mode = "plain", value |-> acc]
    ELSE LET c == Head(s)
             r == Tail(s)
         IN CASE mode = "plain" ->
                   IF c = "'" THEN ShellWord(r, "single", acc)
                   ELSE IF c = "\"" THEN ShellWord(r, "double", acc)
                   ELSE IF c = "\\" THEN
                       (IF r = <<>> THEN ShellFail
                        ELSE IF Head(r) = "\n" THEN ShellWord(Tail(r), "plain", acc)
                        ELSE ShellWord(Tail(r), "plain", acc \o <<Head(r)>>))
                   ELSE IF c \in ShellSpecial THEN ShellFail
                   ELSE ShellWord(r, "plain", acc \o <<c>>)
              [] mode = "single" ->
                   IF c = "'" THEN ShellWord(r, "plain", acc)
                   ELSE ShellWord(r, "single", acc \o <<c>>)
              [] mode = "double" ->
                   IF c = "\"" THEN ShellWord(r, "plain", acc)
                   ELSE IF c = "$" THEN ShellFail
                   ELSE IF c = "\\" /\ r # <<>> /\ Head(r) \in DoubleQuoteEscapable
                       THEN ShellWord(Tail(r), "double", acc \o <<Head(r)>>)
                   ELSE IF c = "\\" /\ r # <<>> /\ Head(r) = "\n"
                       THEN ShellWord(Tail(r), "double", acc)
                   ELSE ShellWord(r, "double", acc \o <<c>>)

ShellAssignment(line) ==
    IF Len(line) >= Len(AssignPrefix)
          /\ SubSeq(line, 1, Len(AssignPrefix)) = AssignPrefix
    THEN ShellWord(SubSeq(line, Len(AssignPrefix) + 1, Len(line)), "plain", <<>>)
    ELSE ShellFail

\* C17: whenever the script has been rendered, a POSIX shell reads its
\* assignment line as one assignment of a literal word, and the value it
\* assigns is exactly the configured secret, whatever quotes, blanks or shell
\* metacharacters the secret holds.
C17_QuoteRoundTrip ==
    script # <<>> =>
        /\ ShellAssignment(script).ok
        /\ ShellAssignment(script).value = TERMUX_SSH_PASSWORD.s

C17_Witness ==
    /\ script # <<>>
    /\ TERMUX_SSH_PASSWORD = Str(<<"i","t","'","s"," ","a"," ","\"","t","e","s","t","\"">>)
    /\ ShellAssignment(script).value = TERMUX_SSH_PASSWORD.s

\* ---------------------------------------------------------------------
\* Release resolution

listing == IF release_data.hasAssets THEN release_data.assets ELSE <<>>

\* get_latest_acurast_lite_apk() has returned or raised.
Resolved == pc \in {"download", "failed"}

\* Name predicate of the specification, on an asset of the listing.
Matches(k) == listing[k].hasName /\ IsLiteApk(listing[k].name)
MatchingAssets == {k \in 1..Len(listing) : Matches(k)}
WellFormed(k) == listing[k].hasName /\ listing[k].hasUrl

\* C13: when resolution returns a reference, it is the name and the download
\* URL of the first asset, in listing order, whose name contains
\* "processor-lite" case-insensitively and ends with ".apk" (never a later
\* match, never a non-matching asset); and it does return it whenever the
\* listing has such an asset and the assets up to it carry a name and a URL.
C13_FirstMatch ==
    (Resolved /\ release_data.ok) =>
        /\ pc = "download" =>
             \E k \in MatchingAssets :
                /\ \A j \in MatchingAssets : k <= j
                /\ apk_name = listing[k].name
                /\ apk_url = listing[k].url
        /\ \A k \in MatchingAssets :
             (\A j \in 1..k : WellFormed(j)) => pc = "download"
        /\ IsLiteApk(NameLiteCaps) /\ ~IsLiteApk(NameLiteUpperExt)
        /\ ~IsLiteApk(NameLiteApkTxt) /\ ~IsLiteApk(NameAppV1)

C13_Witness ==
    /\ \E u \in Urls, v \in Urls, w \in Urls :
         release_data = Release(<<Asset(NameAppV1, u), Asset(NameLiteV2, v),
                                  Asset(NameOtherTxt, w)>>)
    /\ pc = "download"
    /\ apk_name = NameLiteV2
    /\ apk_url = listing[2].url

\* C14: when the endpoint answers with a release in which no asset satisfies
\* the name predicate (the assets array may be empty or absent), resolution
\* raises: main stops with the resolution error and no reference, neither a
\* name nor a URL, has been returned; and a reference that is returned is
\* never empty or partial.
C14_NoMatchFails ==
    /\ (Resolved /\ release_data.ok /\ MatchingAssets = {}) =>
          /\ pc = "failed"
          /\ fatal = "resolve"
          /\ apk_name = <<>>
          /\ apk_url = <<>>
    /\ pc = "download" => (apk_name # <<>> /\ apk_url # <<>>)

C14_Witness ==
    /\ release_data.ok
    /\ ~release_data.hasAssets
    /\ pc = "failed"
    /\ fatal = "resolve"

\* ---------------------------------------------------------------------
\* C15: the cleanup step is entered at most once in a run and exactly once in
\* every run that has reached it; when the artifact is already gone as the
\* cleanup begins, the cleanup removes nothing, raises nothing and hands over
\* to the final status line, which is then printed and ends the run.
C15_IdempotentCleanup ==
    /\ [](/\ cleanupRuns <= 1
          /\ pc \in {"unlink", "final", "done"} => cleanupRuns = 1
          /\ finalPrinted => cleanupRuns = 1
          /\ pc \in {"start", "resolve", "download", "submit", "collect",
                     "shutdown", "cleanup"} => cleanupRuns = 0)
    /\ [][(pc = "cleanup" /\ ~apkExists) =>
              /\ pc' = "final"
              /\ cleanupRuns' = 1
              /\ unlinkCount' = unlinkCount]_vars
    /\ [][pc = "final" => (pc' = "done" /\ finalPrinted')]_vars

C15_Witness ==
    /\ pc = "done"
    /\ finalPrinted
    /\ cleanupRuns = 1
    /\ unlinkCount = 0
    /\ ~apkExists

\* ---------------------------------------------------------------------
\* Decimal rendering of a count below ten.
DigitChars == <<"0","1","2","3","4","5","6","7","8","9">>
Decimal(n) == <<DigitChars[n + 1]>>

SuccessCount == Cardinality({i \in Futures : outcome[i].status = "Success"})
FailureCount == Cardinality({i \in Futures : outcome[i].status # "Success"})

\* C16: when the run has ended with its final line, the aggregator has printed
\* one result line per submitted device, as many for each identifier as it was
\* submitted, and the final line reports the number of devices whose outcome
\* was Success and the number of devices whose outcome was not.
C16_CountSummary ==
    pc = "done" =>
        /\ Len(printed) = Len(devices)
        /\ \A d \in DeviceIds : ReceivedCount(d) = SubmittedCount(d)
        /\ Contains(FinalLineText, Decimal(SuccessCount))
        /\ Contains(FinalLineText, Decimal(FailureCount))

\* ---------------------------------------------------------------------
\* C20: the install command is issued at most once for every submitted device
\* and exactly once for every operation that was launched (so once per
\* submission when the fan-out has finished); a Failed or Error outcome leads
\* to no second command; an outcome, once produced, and a result line, once
\* printed, never change.
C20_NoRetry ==
    /\ [](\A i \in Futures :
            /\ installIssued[i] <= 1
            /\ fut[i] \in {"called", "hung", "done"} <=> installIssued[i] = 1
            /\ fut[i] # "done" => outcome[i] = NoOutcome
            /\ FanOutFinished => installIssued[i] = 1)
    /\ [][\A i \in Futures :
            outcome[i] # NoOutcome =>
               /\ outcome'[i] = outcome[i]
               /\ bridge'[i] = bridge[i]
               /\ fut'[i] = "done"
               /\ installIssued'[i] = installIssued[i]]_vars
    /\ [][/\ Len(printed') >= Len(printed)
          /\ \A k \in 1..Len(printed) : printed'[k] = printed[k]]_vars

C20_Witness ==
    /\ pc = "done"
    /\ Len(devices) = 2
    /\ outcome[1].status = "Failed"
    /\ outcome[2].status = "Error"
    /\ installIssued[1] = 1 /\ installIssued[2] = 1

====
